---- MODULE Spec2Model ----
(***************************************************************************)
(* Model of the journaling app's two data screens: HomeScreen (mood        *)
(* entries, current and earlier version) and FoodScreen (food entries),    *)
(* together with the hosted table each one talks to.                       *)
(*                                                                         *)
(* Strings that the code inspects character by character (trim, replace,   *)
(* parseInt, length) are sequences of one-character strings.  A nullable   *)
(* value is Null (the empty tuple) or Val(x) (a one-element tuple).        *)
(* Every action is one run of JavaScript between two awaits.               *)
(***************************************************************************)
EXTENDS Integers, Sequences, FiniteSets, TLC

(* ---------------------------------------------------------------- bounds *)
MaxInserts == 1          \* insert calls issued in one behaviour
MaxEdits == 2            \* form edits made in one behaviour
StoredRows == 51         \* rows in the mood table when the screen mounts

(* ------------------------------------------------------ program constants *)
LIMIT == 50              \* .limit(50)
MaxFoodName == 100       \* trimmedName.length > 100
MaxNotes == 500          \* notes.length > 500
MaxCalories == 10000     \* caloriesNumber > 10000
DefaultRating == 3       \* parseInt(..) || 3
DayStart == 2            \* created_at values >= DayStart fall on "today"

Null == <<>>
Val(x) == <<x>>

Min(a, b) == IF a < b THEN a ELSE b
Max(a, b) == IF a > b THEN a ELSE b

(* ------------------------------------------------------------ strings *)
Whitespace == {" "}
Digits == {"0", "1", "2", "3", "4", "5", "6", "7", "8", "9"}

DigitVal(c) ==
  CASE c = "0" -> 0 [] c = "1" -> 1 [] c = "2" -> 2 [] c = "3" -> 3
    [] c = "4" -> 4 [] c = "5" -> 5 [] c = "6" -> 6 [] c = "7" -> 7
    [] c = "8" -> 8 [] c = "9" -> 9

\* Number.prototype.toString for the one-digit numbers of the 1..5 buttons
DigitStr(n) ==
  <<CASE n = 0 -> "0" [] n = 1 -> "1" [] n = 2 -> "2" [] n = 3 -> "3"
      [] n = 4 -> "4" [] n = 5 -> "5" [] n = 6 -> "6" [] n = 7 -> "7"
      [] n = 8 -> "8" [] n = 9 -> "9">>

RECURSIVE TrimStart(_)
TrimStart(s) ==
  IF s = <<>> THEN s
  ELSE IF Head(s) \in Whitespace THEN TrimStart(Tail(s)) ELSE s

RECURSIVE TrimEnd(_)
TrimEnd(s) ==
  IF s = <<>> THEN s
  ELSE IF s[Len(s)] \in Whitespace THEN TrimEnd(SubSeq(s, 1, Len(s) - 1)) ELSE s

\* String.prototype.trim
trim(s) == TrimEnd(TrimStart(s))

\* value of the longest prefix of decimal digits, acc carried from the left
RECURSIVE DigitsValue(_, _)
DigitsValue(s, acc) ==
  IF s = <<>> \/ Head(s) \notin Digits THEN acc
  ELSE DigitsValue(Tail(s), 10 * acc + DigitVal(Head(s)))

\* parseInt(s, 10): Null stands for NaN
parseInt(s) ==
  LET t == TrimStart(s)
      neg == t # <<>> /\ Head(t) = "-"
      u == IF t # <<>> /\ Head(t) \in {"-", "+"} THEN Tail(t) ELSE t
  IN IF u = <<>> \/ Head(u) \notin Digits THEN Null
     ELSE Val(IF neg THEN 0 - DigitsValue(u, 0) ELSE DigitsValue(u, 0))

\* JavaScript `p || d` for a parseInt result: NaN and 0 are both falsy
OrDefault(p, d) == IF p = Null \/ p[1] = 0 THEN d ELSE p[1]

\* Math.min(5, Math.max(1, parseInt(mood, 10) || 3))
moodNumber(m) == Min(5, Max(1, OrDefault(parseInt(m), DefaultRating)))

RECURSIVE Reverse(_)
Reverse(s) == IF s = <<>> THEN <<>> ELSE Append(Reverse(Tail(s)), Head(s))

VARIABLES
  screen,        \* which module the behaviour exercises
  env,           \* EXPO_PUBLIC_SUPABASE_URL and _KEY of process.env
  supabase,      \* the exported client, once the module is evaluated
  moduleError,   \* the Error thrown by the evaluation of lib/supabase
  clientCalls,   \* calls of createClient
  weatherKey,    \* WEATHER_API_KEY is configured
  userId, items, loading, inserting, refreshing, error,
  text, mood, useLocation,
  table,         \* rows of the screen's table, oldest first
  seq,           \* last id / created_at handed out by the table
  authPc,        \* getCurrentUser: "pending" | "done"
  pc,            \* position of the running save
  save,          \* locals of the running save
  loadPc,        \* position of a fetchItems started by mount or pull-to-refresh
  filter,        \* the user_id filter of each select and delete in flight
  alert,         \* the Alert.alert raised by the last step, if any
  event,         \* what the last step was, where the state does not tell
  reply,         \* what the select or HTTP request awaited by the last step
                 \* returned to it, if the step was the return of one
  edits,         \* form edits made in the behaviour
  foodKey,       \* EXPO_PUBLIC_FOOD_API_KEY is configured
  foodName, calories, mealType, rating, notes, selectedNutrition,
  showNutritionModal, nutritionResults, dailySummary,
  clearPc,       \* position of clearAllEntries and its confirmation dialog
  searchPc,      \* position of the running searchNutrition
  query,         \* the query of the last searchFoodAPI call that sent one
  foodHttpCount, \* HTTP requests issued by the running searchFoodAPI
  httpCount,     \* HTTP requests issued by the running fetchWeather
  insertCount,   \* insert calls issued by the running save
  inserts        \* insert calls issued in the behaviour

\* state of HomeScreen only, and state of FoodScreen only
libVars == <<env, supabase, moduleError, clientCalls>>
homeVars == <<weatherKey, text, mood, useLocation, httpCount>>
formVars == <<foodName, calories, mealType, rating, notes, selectedNutrition>>
searchVars == <<showNutritionModal, nutritionResults, searchPc, query,
                foodHttpCount>>
foodVars == <<foodKey, formVars, searchVars, clearPc>>

vars == <<screen, userId, items, loading, inserting, refreshing, error, table,
          seq, authPc, pc, save, loadPc, filter, alert, event, reply,
          insertCount,
          inserts, edits, dailySummary, libVars, homeVars, foodVars>>

HomeScreens == {"home", "home_v1"}

(* ------------------------------------------------------- bounded inputs *)
TextInputs == {<<>>, <<" ">>, <<" ", "h", "i", " ">>}
MoodChoices == {1, 5}                       \* of the buttons [1, 2, 3, 4, 5]
MoodInputs == {<<>>, <<"0">>, <<"2">>, <<"7">>, <<"a">>}   \* maxLength={1}
Users == {"u1"}

(* ---------------------------------------------------------- the backend *)
HomeRow(id, txt, m, u) ==
  [id |-> id, created_at |-> id, text |-> txt, mood |-> m, lat |-> Null,
   lng |-> Null, weather |-> Null, temperature |-> Null, user_id |-> u]

FoodRow(id, name, cal, u) ==
  [id |-> id, created_at |-> id, food_name |-> name, calories |-> Val(cal),
   protein |-> Null, carbs |-> Null, fat |-> Null, fiber |-> Null,
   meal_type |-> "lunch", rating |-> Val(4), notes |-> Null, user_id |-> u]

\* rows already in the table: of the signed-in user and one of another
\* user; the mood table holds as many of the user's as a select returns
InitTable(scr) ==
  CASE scr = "home_v1" ->
         <<[id |-> 1, created_at |-> 1, text |-> <<"o">>, mood |-> 2,
            lat |-> Null, lng |-> Null, weather |-> Null]>>
    [] scr = "home" ->
         [i \in 1..StoredRows |->
            IF i = 2 THEN HomeRow(i, <<"x">>, 4, "u2")
            ELSE HomeRow(i, <<"o">>, 2, "u1")]
    [] scr = "food" ->
         <<FoodRow(1, <<"o">>, 100, "u1"), FoodRow(2, <<"x">>, 200, "u2")>>

Take(s, n) == SubSeq(s, 1, Min(n, Len(s)))

\* the select of fetchItems without its .limit(50)
SelectByUser_noLimit(rows, uid) ==
  LET mine(r) == r.user_id = uid
  IN Reverse(SelectSeq(rows, mine))

\* .select('*').eq('user_id', uid).order('created_at', {ascending: false}).limit(50)
SelectByUser(rows, uid) ==
  LET mine(r) == r.user_id = uid
  IN Take(Reverse(SelectSeq(rows, mine)), LIMIT)

\* .select('*').order('created_at', {ascending: false}).limit(50)
SelectAll(rows) == Take(Reverse(rows), LIMIT)

\* fetchItems with the .eq('user_id', userId) of its query left out
Query_unfiltered(scr, rows, uid) == SelectAll(rows)

\* the select of fetchItems, as the screen's version of it builds the query
Query(scr, rows, uid) ==
  IF scr = "home_v1" THEN SelectAll(rows) ELSE SelectByUser(rows, uid[1])

\* the table stamps id and created_at on an inserted row
Stamp(payload, n) == [f \in DOMAIN payload \cup {"id", "created_at"} |->
                        IF f \in {"id", "created_at"} THEN n ELSE payload[f]]

\* the calls that carry a user_id filter: the select of a mount or
\* pull-to-refresh fetchItems, of the save's, of clearAllEntries', its delete
NoFilter == [c \in {"load", "save", "clear", "delete"} |-> Null]

NoSave == [trimmed |-> <<>>, lat |-> Null, lng |-> Null, weather |-> Null,
           temperature |-> Null, payload |-> Null, insErr |-> Null]

(* ------------------------------------------------ lib/supabase: the client *)
\* the values process.env can hold for a variable: undefined, '', a value
EnvValues == {Null, Val(<<>>), Val(<<"v">>)}
ConfiguredEnv == [url |-> Val(<<"v">>), key |-> Val(<<"v">>)]

\* `!v` of a string or undefined
Unset(v) == v = Null \/ v = Val(<<>>)

\* the module with its two guards in the other order
supabaseModule_keyFirst(url, anonKey) ==
  IF Unset(anonKey)
  THEN [thrown |-> Val("Missing EXPO_PUBLIC_SUPABASE_KEY"), client |-> Null,
        calls |-> 0]
  ELSE IF Unset(url)
  THEN [thrown |-> Val("Missing EXPO_PUBLIC_SUPABASE_URL"), client |-> Null,
        calls |-> 0]
  ELSE [thrown |-> Null, calls |-> 1,
        client |-> Val([url |-> url[1], key |-> anonKey[1]])]

\* the evaluation of the module: the two guards, then createClient
supabaseModule(url, anonKey) ==
  IF Unset(url)
  THEN [thrown |-> Val("Missing EXPO_PUBLIC_SUPABASE_URL"), client |-> Null,
        calls |-> 0]
  ELSE IF Unset(anonKey)
  THEN [thrown |-> Val("Missing EXPO_PUBLIC_SUPABASE_KEY"), client |-> Null,
        calls |-> 0]
  ELSE [thrown |-> Null, calls |-> 1,
        client |-> Val([url |-> url[1], key |-> anonKey[1]])]

Init ==
  /\ screen \in {"supabase", "home", "home_v1", "food"}
  /\ env \in [url : EnvValues, key : EnvValues]
  /\ (screen # "supabase" => env = ConfiguredEnv)
  /\ supabase = IF screen = "supabase" THEN Null
                ELSE supabaseModule(env.url, env.key).client
  /\ moduleError = Null
  /\ clientCalls = IF screen = "supabase" THEN 0 ELSE 1
  /\ weatherKey \in BOOLEAN
  /\ (screen # "home" => weatherKey)
  /\ foodKey \in BOOLEAN
  /\ (screen # "food" => foodKey)
  /\ userId = Null
  /\ items = <<>>
  /\ loading = (screen = "home_v1")
  /\ inserting = FALSE
  /\ refreshing = (screen = "home_v1")
  /\ error = Null
  /\ text = <<>>
  /\ mood = <<"3">>
  /\ useLocation = FALSE
  /\ table = IF screen = "supabase" THEN <<>> ELSE InitTable(screen)
  /\ seq = Len(table)
  /\ authPc = IF screen \in {"home", "food"} THEN "pending" ELSE "done"
  /\ pc = "idle"
  /\ save = NoSave
  /\ loadPc = IF screen = "home_v1" THEN "mount" ELSE "idle"
  /\ filter = NoFilter
  /\ alert = Null
  /\ event = "none"
  /\ reply = Null
  /\ httpCount = 0
  /\ insertCount = 0
  /\ inserts = 0
  /\ edits = 0
  /\ foodName = <<>>
  /\ calories = <<>>
  /\ mealType = "breakfast"
  /\ rating = <<"3">>
  /\ notes = <<>>
  /\ selectedNutrition = Null
  /\ showNutritionModal = FALSE
  /\ nutritionResults = <<>>
  /\ dailySummary = Null
  /\ clearPc = "idle"
  /\ searchPc = "idle"
  /\ query = <<>>
  /\ foodHttpCount = 0

(* -------------------------------------------------- FoodScreen: helpers *)
Forbidden == {"<", ">", "&", "\"", "'"}

\* input.replace(/[<>&"']/g, '').trim()
sanitizeInput(input) ==
  LET allowed(c) == c \notin Forbidden
  IN trim(SelectSeq(input, allowed))

\* String.prototype.toLowerCase on the letters the inputs use
LowerChar(c) ==
  CASE c = "M" -> "m" [] c = "C" -> "c" [] c = "A" -> "a" [] OTHER -> c

toLowerCase(s) == [i \in 1..Len(s) |-> LowerChar(s[i])]

\* Number.prototype.toString for an integer
RECURSIVE toString(_)
toString(n) ==
  IF n < 0 THEN <<"-">> \o toString(0 - n)
  ELSE IF n < 10 THEN DigitStr(n)
  ELSE toString(n \div 10) \o DigitStr(n % 10)

\* Math.round of a value given in tenths (halves round towards +Infinity)
Round(tenths) == (tenths + 5) \div 10

\* nutrients.find(n => n.nutrientId === id)?.value || 0, in tenths
RECURSIVE NutrientValue(_, _)
NutrientValue(nutrients, id) ==
  IF nutrients = <<>> THEN 0
  ELSE IF Head(nutrients).nutrientId = id THEN Head(nutrients).value
  ELSE NutrientValue(Tail(nutrients), id)

\* the callback of data.foods.map in searchFoodAPI
toNutritionInfo(food) ==
  [name |-> IF food.description = Null \/ food.description[1] = <<>>
            THEN <<"U", "n", "k", "n", "o", "w", "n", " ", "F", "o", "o", "d">>
            ELSE food.description[1],
   calories |-> Round(NutrientValue(food.foodNutrients, 1008)),
   protein |-> Round(NutrientValue(food.foodNutrients, 1003)),
   carbs |-> Round(NutrientValue(food.foodNutrients, 1005)),
   fat |-> Round(NutrientValue(food.foodNutrients, 1004))]

\* x || 0 and x || null for a nullable number
OrZero(x) == IF x = Null THEN 0 ELSE x[1]
OrNull(n) == IF n = 0 THEN Null ELSE Val(n)

RECURSIVE SumOf(_, _)
SumOf(entries, field) ==
  IF entries = <<>> THEN 0
  ELSE OrZero(Head(entries)[field]) + SumOf(Tail(entries), field)

CountMeal(entries, meal) ==
  LET is(e) == e.meal_type = meal IN Len(SelectSeq(entries, is))

\* calculateDailySummary: averageRating is kept as the pair <<sum, count>>
calculateDailySummary(entries) ==
  LET isToday(e) == e.created_at >= DayStart
      todayEntries == SelectSeq(entries, isToday)
  IN [totalCalories |-> SumOf(todayEntries, "calories"),
      totalProtein |-> SumOf(todayEntries, "protein"),
      totalCarbs |-> SumOf(todayEntries, "carbs"),
      totalFat |-> SumOf(todayEntries, "fat"),
      totalFiber |-> SumOf(todayEntries, "fiber"),
      mealCounts |-> [m \in {"breakfast", "lunch", "dinner", "snack"} |->
                        CountMeal(todayEntries, m)],
      averageRating |-> IF Len(todayEntries) > 0
                        THEN <<SumOf(todayEntries, "rating"), Len(todayEntries)>>
                        ELSE <<0, 1>>]

(* --------------------------------------- FoodScreen: bounded inputs *)
LongName == [i \in 1..(MaxFoodName + 1) |-> "x"]
LongNotes == [i \in 1..(MaxNotes + 1) |-> "n"]
FoodNameInputs == {<<" ">>, <<" ", "<", "a", ">", " ">>}
CaloriesInputs == {<<"-", "5">>, <<"2", "0", "0", "0", "0">>}
NotesInputs == {<<"n", "'">>, LongNotes}
MealChoices == {"dinner"}        \* of breakfast, lunch, dinner, snack
RatingChoices == {5}             \* of the buttons [1, 2, 3, 4, 5]

FoodAmp == [description |-> Val(<<"M", "&", "C">>),
            foodNutrients |-> <<[nutrientId |-> 1003, value |-> 74],
                                [nutrientId |-> 1008, value |-> 3505]>>]
FoodLong == [description |-> Val(LongName), foodNutrients |-> <<>>]
\* what fetch(url) and response.json() can do: reject, a non-OK status, a
\* body that does not parse, a body without foods, a body with foods
FoodResponses ==
  { [thrown |-> TRUE, ok |-> FALSE, json |-> Null],
    [thrown |-> FALSE, ok |-> FALSE, json |-> Val([foods |-> Null])],
    [thrown |-> FALSE, ok |-> TRUE, json |-> Null],
    [thrown |-> FALSE, ok |-> TRUE, json |-> Val([foods |-> Null])],
    [thrown |-> FALSE, ok |-> TRUE,
     json |-> Val([foods |-> Val(<<FoodAmp, FoodLong>>)])] }

(* ------------------------------------------- lib/supabase: module load *)
\* the first import of lib/supabase evaluates the module, once
importSupabase ==
  /\ screen = "supabase"
  /\ supabase = Null /\ moduleError = Null
  /\ LET r == supabaseModule(env.url, env.key)
     IN /\ supabase' = r.client
        /\ moduleError' = r.thrown
        /\ clientCalls' = clientCalls + r.calls
  /\ alert' = Null
  /\ event' = "none"
  /\ reply' = Null
  /\ UNCHANGED <<screen, env, userId, items, loading, inserting, refreshing,
                   error, table, seq, authPc, pc, save, loadPc, filter,
                   insertCount, inserts, edits, dailySummary, homeVars,
                   foodKey, formVars, searchVars, clearPc>>

(* ------------------------------------------------------------ fetchItems *)
\* the form and the list are rendered (not the "Loading user data..." view)
Rendered == screen = "home_v1" \/ userId # Null

\* no dialog with buttons covers the screen: the confirmation Alert and the
\* results Modal take every touch while they are shown
Uncovered == clearPc # "dialog" /\ ~showNutritionModal

\* fetchItems up to its await: the guard on userId, setRefreshing(true),
\* setError(null) and the select it issues; err is the error state before it
fetchItemsHead(err) ==
  IF screen # "home_v1" /\ userId = Null
  THEN [started |-> FALSE, error |-> err, refreshing |-> refreshing,
        filter |-> Null]
  ELSE [started |-> TRUE, error |-> Null, refreshing |-> TRUE,
        filter |-> IF screen = "home_v1" THEN Null ELSE userId]

\* fetchItems calling setItems only when the select returned data
fetchItemsTail_keepItems(ok, call) ==
  /\ error' = IF ok THEN error ELSE Val("select failed")
  /\ items' = IF ok THEN Query(screen, table, filter[call]) ELSE items
  /\ dailySummary' = IF ok /\ screen = "food"
                     THEN Val(calculateDailySummary(
                                Query(screen, table, filter[call])))
                     ELSE dailySummary
  /\ refreshing' = FALSE
  /\ filter' = [filter EXCEPT ![call] = Null]
  /\ reply' = Val([call |-> "select",
                   data |-> IF ok THEN Val(Query(screen, table, filter[call]))
                            ELSE Null,
                   error |-> IF ok THEN Null ELSE Val("select failed")])

\* fetchItems after its await: { data, error: qErr } of the select
fetchItemsTail(ok, call) ==
  /\ error' = IF ok THEN error ELSE Val("select failed")
  /\ items' = IF ok THEN Query(screen, table, filter[call]) ELSE <<>>
  /\ dailySummary' = IF ok /\ screen = "food"
                     THEN Val(calculateDailySummary(
                                Query(screen, table, filter[call])))
                     ELSE dailySummary
  /\ refreshing' = FALSE
  /\ filter' = [filter EXCEPT ![call] = Null]
  /\ reply' = Val([call |-> "select",
                   data |-> IF ok THEN Val(Query(screen, table, filter[call]))
                            ELSE Null,
                   error |-> IF ok THEN Null ELSE Val("select failed")])

\* supabase.auth.getUser() resolves; the effect on [fetchItems, userId] runs
getCurrentUser ==
  /\ screen \in {"home", "food"}
  /\ authPc = "pending"
  /\ authPc' = "done"
  /\ \E u \in {Null} \cup {Val(x) : x \in Users} :
       /\ userId' = u
       /\ IF u # Null
          THEN /\ loading' = TRUE
               /\ refreshing' = TRUE
               /\ error' = Null
               /\ loadPc' = "mount"
               /\ filter' = [filter EXCEPT !["load"] = u]
          ELSE UNCHANGED <<loading, refreshing, error, loadPc, filter>>
  /\ alert' = Null
  /\ event' = "none"
  /\ reply' = Null
  /\ UNCHANGED <<screen, libVars, items, inserting, table, seq, pc, save,
                   insertCount, inserts, edits, dailySummary, homeVars,
                   foodKey, formVars, searchVars, clearPc>>

\* RefreshControl onRefresh={fetchItems}
onRefresh ==
  /\ Rendered /\ Uncovered /\ ~loading
  /\ loadPc = "idle"
  /\ LET h == fetchItemsHead(error)
     IN /\ error' = h.error
        /\ refreshing' = h.refreshing
        /\ loadPc' = IF h.started THEN "pull" ELSE "idle"
        /\ filter' = [filter EXCEPT !["load"] = h.filter]
  /\ alert' = Null
  /\ event' = "none"
  /\ reply' = Null
  /\ UNCHANGED <<screen, libVars, userId, items, loading, inserting, table,
                   seq, authPc, pc, save, insertCount, inserts, edits,
                   dailySummary, homeVars, foodKey, formVars, searchVars,
                   clearPc>>

\* the select of a mount or pull-to-refresh fetchItems returns
fetchItems_return ==
  /\ loadPc # "idle"
  /\ \E ok \in BOOLEAN : fetchItemsTail(ok, "load")
  /\ loading' = IF loadPc = "mount" THEN FALSE ELSE loading
  /\ loadPc' = "idle"
  /\ alert' = Null
  /\ event' = "none"
  /\ UNCHANGED <<screen, libVars, userId, inserting, table, seq, authPc, pc,
                   save, insertCount, inserts, edits, homeVars, foodKey,
                   formVars, searchVars, clearPc>>

(* ------------------------------------------------ HomeScreen: the form *)
setText ==
  /\ screen \in HomeScreens
  /\ Rendered /\ ~inserting
  /\ edits < MaxEdits
  /\ edits' = edits + 1
  /\ \E t \in TextInputs : text' = t
  /\ alert' = Null
  /\ event' = "none"
  /\ reply' = Null
  /\ UNCHANGED <<screen, libVars, userId, items, loading, inserting,
                   refreshing, error, table, seq, authPc, pc, save, loadPc,
                   filter, insertCount, inserts, dailySummary, weatherKey,
                   mood, useLocation, httpCount, foodKey, formVars,
                   searchVars, clearPc>>

\* current screen: the 1..5 buttons; earlier screen: a one-character TextInput
setMood ==
  /\ screen \in HomeScreens
  /\ Rendered /\ ~inserting
  /\ edits < MaxEdits
  /\ edits' = edits + 1
  /\ IF screen = "home"
     THEN \E num \in MoodChoices : mood' = DigitStr(num)
     ELSE \E m \in MoodInputs : mood' = m
  /\ alert' = Null
  /\ event' = "none"
  /\ reply' = Null
  /\ UNCHANGED <<screen, libVars, userId, items, loading, inserting,
                   refreshing, error, table, seq, authPc, pc, save, loadPc,
                   filter, insertCount, inserts, dailySummary, weatherKey,
                   text, useLocation, httpCount, foodKey, formVars,
                   searchVars, clearPc>>

setUseLocation ==
  /\ screen \in HomeScreens
  /\ Rendered /\ ~inserting
  /\ edits < MaxEdits
  /\ edits' = edits + 1
  /\ useLocation' = ~useLocation
  /\ alert' = Null
  /\ event' = "none"
  /\ reply' = Null
  /\ UNCHANGED <<screen, libVars, userId, items, loading, inserting,
                   refreshing, error, table, seq, authPc, pc, save, loadPc,
                   filter, insertCount, inserts, dailySummary, weatherKey,
                   text, mood, httpCount, foodKey, formVars, searchVars,
                   clearPc>>

(* -------------------------------------------------- HomeScreen: addItem *)
Rain == [weather |-> <<[main |-> "Rain"]>>, temp |-> Val(0)]
RainNoTemp == [weather |-> <<[main |-> "Rain"]>>, temp |-> Null]
NoWeather == [weather |-> <<>>, temp |-> Null]

\* what fetch(url) and resp.json() can do: reject, a non-OK status, a body
\* that does not parse, a body without weather elements, a full body
WeatherResponses ==
  { [thrown |-> TRUE, ok |-> FALSE, json |-> Null],
    [thrown |-> FALSE, ok |-> FALSE, json |-> Val(Rain)],
    [thrown |-> FALSE, ok |-> TRUE, json |-> Null],
    [thrown |-> FALSE, ok |-> TRUE, json |-> Val(NoWeather)],
    [thrown |-> FALSE, ok |-> TRUE, json |-> Val(Rain)],
    [thrown |-> FALSE, ok |-> TRUE, json |-> Val(RainNoTemp)] }

NoWeatherResult == [weather |-> Null, temperature |-> Null]

\* fetchWeather without `if (!resp.ok) throw`
fetchWeather_noStatusCheck(scr, resp) ==
  IF resp.thrown THEN NoWeatherResult
  ELSE IF resp.json = Null THEN NoWeatherResult
  ELSE LET data == resp.json[1]
       IN IF Len(data.weather) > 0
          THEN [weather |-> Val(data.weather[1].main),
                temperature |-> IF scr = "home" THEN data.temp ELSE Null]
          ELSE NoWeatherResult

\* the part of fetchWeather after the response, current and earlier version
fetchWeather(scr, resp) ==
  IF resp.thrown THEN NoWeatherResult
  ELSE IF scr = "home" /\ ~resp.ok THEN NoWeatherResult
  ELSE IF resp.json = Null THEN NoWeatherResult
  ELSE LET data == resp.json[1]
       IN IF Len(data.weather) > 0
          THEN [weather |-> Val(data.weather[1].main),
                temperature |-> IF scr = "home" THEN data.temp ELSE Null]
          ELSE NoWeatherResult

\* the object passed to .insert() by addItem
HomePayload(sv) ==
  IF screen = "home"
  THEN [text |-> sv.trimmed, mood |-> moodNumber(mood), lat |-> sv.lat,
        lng |-> sv.lng, weather |-> sv.weather,
        temperature |-> sv.temperature, user_id |-> userId[1]]
  ELSE [text |-> sv.trimmed, mood |-> moodNumber(mood), lat |-> sv.lat,
        lng |-> sv.lng, weather |-> sv.weather]

\* a save reaches `await supabase.from(..).insert(payload)`
IssueInsert(payload) ==
  /\ pc' = "insert"
  /\ save' = [NoSave EXCEPT !.payload = Val(payload)]
  /\ insertCount' = insertCount + 1
  /\ inserts' = inserts + 1

\* addItem returning on a null userId without setError
addItem_silentAuth ==
  /\ screen \in HomeScreens
  /\ Uncovered
  /\ pc = "idle" /\ ~inserting
  /\ inserts < MaxInserts
  /\ IF screen = "home" /\ userId = Null
     THEN /\ event' = "unauthenticated"
          /\ UNCHANGED <<error, inserting, pc, save, insertCount, inserts>>
     ELSE IF trim(text) = <<>>
     THEN /\ event' = "blank"
          /\ UNCHANGED <<error, inserting, pc, save, insertCount, inserts>>
     ELSE /\ inserting' = TRUE
          /\ error' = Null
          /\ event' = "none"
          /\ LET sv == [NoSave EXCEPT !.trimmed = trim(text)]
             IN IF useLocation
                THEN /\ pc' = "permission"
                     /\ save' = sv
                     /\ insertCount' = 0
                     /\ UNCHANGED inserts
                ELSE /\ pc' = "insert"
                     /\ save' = [NoSave EXCEPT !.payload = Val(HomePayload(sv))]
                     /\ insertCount' = 1
                     /\ inserts' = inserts + 1
  /\ alert' = Null
  /\ reply' = Null
  /\ UNCHANGED <<screen, libVars, userId, items, loading, refreshing, table,
                   seq, authPc, loadPc, filter, edits, dailySummary, homeVars,
                   foodKey, formVars, searchVars, clearPc>>

\* addItem testing `!text` where the code tests `!trimmed`
addItem_untrimmedCheck ==
  /\ screen \in HomeScreens
  /\ Uncovered
  /\ pc = "idle" /\ ~inserting
  /\ inserts < MaxInserts
  /\ IF screen = "home" /\ userId = Null
     THEN /\ error' = Val("User not authenticated")
          /\ event' = "unauthenticated"
          /\ UNCHANGED <<inserting, pc, save, insertCount, inserts>>
     ELSE IF text = <<>>
     THEN /\ event' = "blank"
          /\ UNCHANGED <<error, inserting, pc, save, insertCount, inserts>>
     ELSE /\ inserting' = TRUE
          /\ error' = Null
          /\ event' = "none"
          /\ LET sv == [NoSave EXCEPT !.trimmed = trim(text)]
             IN IF useLocation
                THEN /\ pc' = "permission"
                     /\ save' = sv
                     /\ insertCount' = 0
                     /\ UNCHANGED inserts
                ELSE /\ pc' = "insert"
                     /\ save' = [NoSave EXCEPT !.payload = Val(HomePayload(sv))]
                     /\ insertCount' = 1
                     /\ inserts' = inserts + 1
  /\ alert' = Null
  /\ reply' = Null
  /\ UNCHANGED <<screen, libVars, userId, items, loading, refreshing, table,
                   seq, authPc, loadPc, filter, edits, dailySummary, homeVars,
                   foodKey, formVars, searchVars, clearPc>>

\* the Save button without `disabled={inserting || ...}`
addItem_alwaysEnabled ==
  /\ screen \in HomeScreens
  /\ Uncovered
  /\ inserts < MaxInserts
  /\ IF screen = "home" /\ userId = Null
     THEN /\ error' = Val("User not authenticated")
          /\ event' = "unauthenticated"
          /\ UNCHANGED <<inserting, pc, save, insertCount, inserts>>
     ELSE IF trim(text) = <<>>
     THEN /\ event' = "blank"
          /\ UNCHANGED <<error, inserting, pc, save, insertCount, inserts>>
     ELSE /\ inserting' = TRUE
          /\ error' = Null
          /\ event' = "none"
          /\ LET sv == [NoSave EXCEPT !.trimmed = trim(text)]
             IN IF useLocation
                THEN /\ pc' = "permission"
                     /\ save' = sv
                     /\ insertCount' = 0
                     /\ UNCHANGED inserts
                ELSE /\ pc' = "insert"
                     /\ save' = [NoSave EXCEPT !.payload = Val(HomePayload(sv))]
                     /\ insertCount' = 1
                     /\ inserts' = inserts + 1
  /\ alert' = Null
  /\ reply' = Null
  /\ UNCHANGED <<screen, libVars, userId, items, loading, refreshing, table,
                   seq, authPc, loadPc, filter, edits, dailySummary, homeVars,
                   foodKey, formVars, searchVars, clearPc>>

\* Save button pressed: addItem up to its first await
addItem ==
  /\ screen \in HomeScreens
  /\ Uncovered
  /\ pc = "idle" /\ ~inserting
  /\ inserts < MaxInserts
  /\ IF screen = "home" /\ userId = Null
     THEN /\ error' = Val("User not authenticated")
          /\ event' = "unauthenticated"
          /\ UNCHANGED <<inserting, pc, save, insertCount, inserts>>
     ELSE IF trim(text) = <<>>
     THEN /\ event' = "blank"
          /\ UNCHANGED <<error, inserting, pc, save, insertCount, inserts>>
     ELSE /\ inserting' = TRUE
          /\ error' = Null
          /\ event' = "none"
          /\ LET sv == [NoSave EXCEPT !.trimmed = trim(text)]
             IN IF useLocation
                THEN /\ pc' = "permission"
                     /\ save' = sv
                     /\ insertCount' = 0
                     /\ UNCHANGED inserts
                ELSE /\ pc' = "insert"
                     /\ save' = [NoSave EXCEPT !.payload = Val(HomePayload(sv))]
                     /\ insertCount' = 1
                     /\ inserts' = inserts + 1
  /\ alert' = Null
  /\ reply' = Null
  /\ UNCHANGED <<screen, libVars, userId, items, loading, refreshing, table,
                   seq, authPc, loadPc, filter, edits, dailySummary, homeVars,
                   foodKey, formVars, searchVars, clearPc>>

\* Location.requestForegroundPermissionsAsync() settles
addItem_permission ==
  /\ pc = "permission"
  /\ \E status \in {"granted", "denied", "throw"} :
       CASE status = "throw" ->
              /\ pc' = "rejected"
              /\ event' = "none"
              /\ UNCHANGED <<save, insertCount, inserts>>
         [] status = "denied" ->
              /\ IssueInsert(HomePayload(save))
              /\ event' = "none"
         [] status = "granted" ->
              /\ pc' = "position"
              /\ event' = "none"
              /\ UNCHANGED <<save, insertCount, inserts>>
  /\ alert' = Null
  /\ reply' = Null
  /\ UNCHANGED <<screen, libVars, userId, items, loading, inserting,
                   refreshing, error, table, seq, authPc, loadPc, filter,
                   edits, dailySummary, homeVars, foodKey, formVars,
                   searchVars, clearPc>>

\* Location.getCurrentPositionAsync({}) settles; fetchWeather is entered
addItem_position ==
  /\ pc = "position"
  /\ \E got \in BOOLEAN :
       IF got
       THEN LET sv == [save EXCEPT !.lat = Val(1), !.lng = Val(2)]
            IN IF screen = "home" /\ ~weatherKey
               THEN /\ IssueInsert(HomePayload(sv))
                    /\ httpCount' = 0
                    /\ event' = "none"
               ELSE /\ pc' = "weather"
                    /\ save' = sv
                    /\ httpCount' = 1
                    /\ event' = "none"
                    /\ UNCHANGED <<insertCount, inserts>>
       ELSE IF screen = "home"
            THEN /\ IssueInsert(HomePayload(save))
                 /\ event' = "none"
                 /\ UNCHANGED httpCount
            ELSE /\ pc' = "rejected"
                 /\ event' = "none"
                 /\ UNCHANGED <<save, insertCount, inserts, httpCount>>
  /\ alert' = Null
  /\ reply' = Null
  /\ UNCHANGED <<screen, libVars, userId, items, loading, inserting,
                   refreshing, error, table, seq, authPc, loadPc, filter,
                   edits, dailySummary, weatherKey, text, mood, useLocation,
                   foodKey, formVars, searchVars, clearPc>>

\* the weather request settles; fetchWeather returns into addItem
addItem_weather ==
  /\ pc = "weather"
  /\ \E resp \in WeatherResponses :
       LET w == fetchWeather(screen, resp)
       IN /\ IssueInsert(HomePayload([save EXCEPT
                                           !.weather = w.weather,
                                           !.temperature = w.temperature]))
          /\ reply' = Val([call |-> "weather", response |-> resp])
  /\ httpCount' = 0
  /\ alert' = Null
  /\ event' = "none"
  /\ UNCHANGED <<screen, libVars, userId, items, loading, inserting,
                   refreshing, error, table, seq, authPc, loadPc, filter,
                   edits, dailySummary, weatherKey, text, mood, useLocation,
                   foodKey, formVars, searchVars, clearPc>>

\* the insert returns { error: insErr }; addItem runs on into fetchItems
addItem_insert ==
  /\ screen \in HomeScreens
  /\ pc = "insert"
  /\ \E ok \in BOOLEAN :
       LET h == fetchItemsHead(IF ok THEN error ELSE Val("insert failed"))
       IN /\ table' = IF ok THEN Append(table, Stamp(save.payload[1], seq + 1))
                      ELSE table
          /\ seq' = IF ok THEN seq + 1 ELSE seq
          /\ save' = IF ~h.started THEN NoSave
                      ELSE [NoSave EXCEPT !.insErr =
                              IF ok THEN Null ELSE Val("insert failed")]
          /\ insertCount' = IF h.started THEN insertCount ELSE 0
          /\ alert' = IF ok /\ screen = "home" THEN Val("Success!") ELSE Null
          /\ text' = <<>>
          /\ error' = h.error
          /\ refreshing' = h.refreshing
          /\ filter' = [filter EXCEPT !["save"] = h.filter]
          /\ pc' = IF h.started THEN "refresh" ELSE "idle"
          /\ inserting' = h.started
          /\ event' = "none"
  /\ reply' = Null
  /\ UNCHANGED <<screen, libVars, userId, items, loading, authPc, loadPc,
                   inserts, edits, dailySummary, weatherKey, mood,
                   useLocation, httpCount, foodKey, formVars, searchVars,
                   clearPc>>

\* the select of the save's fetchItems returns; setInserting(false)
addItem_refresh ==
  /\ screen \in HomeScreens
  /\ pc = "refresh"
  /\ \E ok \in BOOLEAN :
       fetchItemsTail(ok, "save")
  /\ save' = NoSave
  /\ insertCount' = 0
  /\ inserting' = FALSE
  /\ pc' = "idle"
  /\ event' = "none"
  /\ alert' = Null
  /\ UNCHANGED <<screen, libVars, userId, loading, table, seq, authPc, loadPc,
                   inserts, edits, homeVars, foodKey, formVars, searchVars,
                   clearPc>>

(* ------------------------------------------------ FoodScreen: the form *)
handleFoodNameChange ==
  /\ screen = "food"
  /\ Rendered /\ Uncovered /\ ~inserting
  /\ edits < MaxEdits
  /\ edits' = edits + 1
  /\ \E t \in FoodNameInputs : foodName' = sanitizeInput(t)
  /\ alert' = Null
  /\ event' = "none"
  /\ reply' = Null
  /\ UNCHANGED <<screen, libVars, userId, items, loading, inserting,
                   refreshing, error, table, seq, authPc, pc, save, loadPc,
                   filter, insertCount, inserts, dailySummary, homeVars,
                   foodKey, calories, mealType, rating, notes,
                   selectedNutrition, searchVars, clearPc>>

handleNotesChange ==
  /\ screen = "food"
  /\ Rendered /\ Uncovered /\ ~inserting
  /\ edits < MaxEdits
  /\ edits' = edits + 1
  /\ \E t \in NotesInputs : notes' = sanitizeInput(t)
  /\ alert' = Null
  /\ event' = "none"
  /\ reply' = Null
  /\ UNCHANGED <<screen, libVars, userId, items, loading, inserting,
                   refreshing, error, table, seq, authPc, pc, save, loadPc,
                   filter, insertCount, inserts, dailySummary, homeVars,
                   foodKey, foodName, calories, mealType, rating,
                   selectedNutrition, searchVars, clearPc>>

setCalories ==
  /\ screen = "food"
  /\ Rendered /\ Uncovered /\ ~inserting
  /\ edits < MaxEdits
  /\ edits' = edits + 1
  /\ \E t \in CaloriesInputs : calories' = t
  /\ alert' = Null
  /\ event' = "none"
  /\ reply' = Null
  /\ UNCHANGED <<screen, libVars, userId, items, loading, inserting,
                   refreshing, error, table, seq, authPc, pc, save, loadPc,
                   filter, insertCount, inserts, dailySummary, homeVars,
                   foodKey, foodName, mealType, rating, notes,
                   selectedNutrition, searchVars, clearPc>>

setMealType ==
  /\ screen = "food"
  /\ Rendered /\ Uncovered /\ ~inserting
  /\ edits < MaxEdits
  /\ edits' = edits + 1
  /\ \E m \in MealChoices : mealType' = m
  /\ alert' = Null
  /\ event' = "none"
  /\ reply' = Null
  /\ UNCHANGED <<screen, libVars, userId, items, loading, inserting,
                   refreshing, error, table, seq, authPc, pc, save, loadPc,
                   filter, insertCount, inserts, dailySummary, homeVars,
                   foodKey, foodName, calories, rating, notes,
                   selectedNutrition, searchVars, clearPc>>

setRating ==
  /\ screen = "food"
  /\ Rendered /\ Uncovered /\ ~inserting
  /\ edits < MaxEdits
  /\ edits' = edits + 1
  /\ \E num \in RatingChoices : rating' = toString(num)
  /\ alert' = Null
  /\ event' = "none"
  /\ reply' = Null
  /\ UNCHANGED <<screen, libVars, userId, items, loading, inserting,
                   refreshing, error, table, seq, authPc, pc, save, loadPc,
                   filter, insertCount, inserts, dailySummary, homeVars,
                   foodKey, foodName, calories, mealType, notes,
                   selectedNutrition, searchVars, clearPc>>

(* ------------------------------------------ FoodScreen: nutrition search *)
\* searchFoodAPI building its list from the last food to the first
searchFoodAPI_reversed(resp) ==
  IF resp.thrown \/ ~resp.ok \/ resp.json = Null
  THEN [results |-> <<>>, failed |-> TRUE]
  ELSE LET foods == resp.json[1].foods
       IN IF foods = Null
          THEN [results |-> <<>>, failed |-> FALSE]
          ELSE [results |-> [i \in 1..Len(foods[1]) |->
                               toNutritionInfo(
                                 foods[1][Len(foods[1]) + 1 - i])],
                failed |-> FALSE]

\* the part of searchFoodAPI after the response: the list it returns and
\* whether the catch block raised its alert
searchFoodAPI(resp) ==
  IF resp.thrown \/ ~resp.ok \/ resp.json = Null
  THEN [results |-> <<>>, failed |-> TRUE]
  ELSE LET foods == resp.json[1].foods
       IN IF foods = Null
          THEN [results |-> <<>>, failed |-> FALSE]
          ELSE [results |-> [i \in 1..Len(foods[1]) |->
                               toNutritionInfo(foods[1][i])],
                failed |-> FALSE]

\* searchNutrition answering a name it has searched before from the results
\* it still holds
searchNutrition_cached ==
  /\ screen = "food"
  /\ Rendered /\ Uncovered
  /\ searchPc = "idle"
  /\ LET q == trim(toLowerCase(foodName))
     IN IF q = <<>>
        THEN /\ alert' = Val("Enter a food name to search nutrition info")
             /\ event' = "none"
             /\ UNCHANGED <<nutritionResults, showNutritionModal, searchPc,
                            query, foodHttpCount>>
        ELSE IF q = query
        THEN /\ alert' = Null
             /\ event' = "again"
             /\ showNutritionModal' = TRUE
             /\ UNCHANGED <<nutritionResults, searchPc, query, foodHttpCount>>
        ELSE /\ nutritionResults' = <<>>
             /\ event' = "none"
             /\ IF foodKey
                THEN /\ searchPc' = "http"
                     /\ query' = q
                     /\ foodHttpCount' = 1
                     /\ alert' = Null
                     /\ UNCHANGED showNutritionModal
                ELSE /\ alert' = Val("Food API key not configured")
                     /\ showNutritionModal' = TRUE
                     /\ UNCHANGED <<searchPc, query, foodHttpCount>>
  /\ reply' = Null
  /\ UNCHANGED <<screen, libVars, userId, items, loading, inserting,
                   refreshing, error, table, seq, authPc, pc, save, loadPc,
                   filter, insertCount, inserts, edits, dailySummary,
                   homeVars, foodKey, formVars, clearPc>>

\* "Search Nutrition" pressed: searchNutrition up to the request; event
\* tells a search for the name of the search before it
searchNutrition ==
  /\ screen = "food"
  /\ Rendered /\ Uncovered
  /\ searchPc = "idle"
  /\ LET q == trim(toLowerCase(foodName))
     IN IF q = <<>>
        THEN /\ alert' = Val("Enter a food name to search nutrition info")
             /\ event' = "none"
             /\ UNCHANGED <<nutritionResults, showNutritionModal, searchPc,
                            query, foodHttpCount>>
        ELSE /\ nutritionResults' = <<>>
             /\ event' = IF q = query THEN "again" ELSE "none"
             /\ IF foodKey
                THEN /\ searchPc' = "http"
                     /\ query' = q
                     /\ foodHttpCount' = 1
                     /\ alert' = Null
                     /\ UNCHANGED showNutritionModal
                ELSE /\ alert' = Val("Food API key not configured")
                     /\ showNutritionModal' = TRUE
                     /\ UNCHANGED <<searchPc, query, foodHttpCount>>
  /\ reply' = Null
  /\ UNCHANGED <<screen, libVars, userId, items, loading, inserting,
                   refreshing, error, table, seq, authPc, pc, save, loadPc,
                   filter, insertCount, inserts, edits, dailySummary,
                   homeVars, foodKey, formVars, clearPc>>

\* searchFoodAPI sending the request once more after a failed one
searchNutrition_response_retry ==
  /\ searchPc = "http"
  /\ \E resp \in FoodResponses :
       LET r == searchFoodAPI(resp)
       IN /\ reply' = Val([call |-> "food", response |-> resp])
          /\ IF r.failed /\ foodHttpCount < 2
             THEN /\ foodHttpCount' = foodHttpCount + 1
                  /\ alert' = Null
                  /\ UNCHANGED <<nutritionResults, showNutritionModal,
                                 searchPc, query>>
             ELSE /\ alert' = IF r.failed
                              THEN Val("Failed to search food database")
                              ELSE Null
                  /\ nutritionResults' = r.results
                  /\ showNutritionModal' = TRUE
                  /\ searchPc' = "idle"
                  /\ query' = query
                  /\ foodHttpCount' = 0
  /\ event' = "none"
  /\ UNCHANGED <<screen, libVars, userId, items, loading, inserting,
                   refreshing, error, table, seq, authPc, pc, save, loadPc,
                   filter, insertCount, inserts, edits, dailySummary,
                   homeVars, foodKey, formVars, clearPc>>

\* the food request settles; searchFoodAPI returns into searchNutrition
searchNutrition_response ==
  /\ searchPc = "http"
  /\ \E resp \in FoodResponses :
       LET r == searchFoodAPI(resp)
       IN /\ reply' = Val([call |-> "food", response |-> resp])
          /\ alert' = IF r.failed THEN Val("Failed to search food database")
                      ELSE Null
          /\ nutritionResults' = r.results
  /\ showNutritionModal' = TRUE
  /\ searchPc' = "idle"
  /\ query' = query
  /\ foodHttpCount' = 0
  /\ event' = "none"
  /\ UNCHANGED <<screen, libVars, userId, items, loading, inserting,
                   refreshing, error, table, seq, authPc, pc, save, loadPc,
                   filter, insertCount, inserts, edits, dailySummary,
                   homeVars, foodKey, formVars, clearPc>>

\* a row of the results dialog pressed
selectNutritionItem ==
  /\ screen = "food"
  /\ showNutritionModal /\ clearPc # "dialog"
  /\ edits < MaxEdits
  /\ edits' = edits + 1
  /\ \E i \in 1..Len(nutritionResults) :
       LET nutrition == nutritionResults[i]
       IN /\ foodName' = nutrition.name
          /\ calories' = toString(nutrition.calories)
          /\ selectedNutrition' = Val(nutrition)
  /\ showNutritionModal' = FALSE
  /\ alert' = Val("Nutrition Info Applied!")
  /\ event' = "none"
  /\ reply' = Null
  /\ UNCHANGED <<screen, libVars, userId, items, loading, inserting,
                   refreshing, error, table, seq, authPc, pc, save, loadPc,
                   filter, insertCount, inserts, dailySummary, homeVars,
                   foodKey, mealType, rating, notes, nutritionResults,
                   searchPc, query, foodHttpCount, clearPc>>

\* "Close" of the results dialog pressed
closeNutritionModal ==
  /\ screen = "food"
  /\ showNutritionModal /\ clearPc # "dialog"
  /\ showNutritionModal' = FALSE
  /\ alert' = Null
  /\ event' = "none"
  /\ reply' = Null
  /\ UNCHANGED <<screen, libVars, userId, items, loading, inserting,
                   refreshing, error, table, seq, authPc, pc, save, loadPc,
                   filter, insertCount, inserts, edits, dailySummary,
                   homeVars, foodKey, formVars, nutritionResults, searchPc,
                   query, foodHttpCount, clearPc>>

(* ------------------------------------------- FoodScreen: clearAllEntries *)
\* clearAllEntries issuing its delete without the confirmation dialog
clearAllEntries_unconfirmed ==
  /\ screen = "food"
  /\ Rendered /\ Uncovered
  /\ clearPc = "idle"
  /\ clearPc' = "delete"
  /\ filter' = [filter EXCEPT !["delete"] = userId]
  /\ alert' = Null
  /\ event' = "none"
  /\ reply' = Null
  /\ UNCHANGED <<screen, libVars, userId, items, loading, inserting,
                   refreshing, error, table, seq, authPc, pc, save, loadPc,
                   insertCount, inserts, edits, dailySummary, homeVars,
                   foodKey, formVars, searchVars>>

\* "Clear All Entries" pressed: the confirmation dialog opens
clearAllEntries ==
  /\ screen = "food"
  /\ Rendered /\ Uncovered
  /\ clearPc = "idle"
  /\ clearPc' = "dialog"
  /\ alert' = Val("Clear All Entries")
  /\ event' = "none"
  /\ reply' = Null
  /\ UNCHANGED <<screen, libVars, userId, items, loading, inserting,
                   refreshing, error, table, seq, authPc, pc, save, loadPc,
                   filter, insertCount, inserts, edits, dailySummary,
                   homeVars, foodKey, formVars, searchVars>>

\* 'Cancel' pressed in the confirmation dialog
clearAllEntries_cancel ==
  /\ clearPc = "dialog"
  /\ clearPc' = "idle"
  /\ event' = "Cancel"
  /\ alert' = Null
  /\ reply' = Null
  /\ UNCHANGED <<screen, libVars, userId, items, loading, inserting,
                   refreshing, error, table, seq, authPc, pc, save, loadPc,
                   filter, insertCount, inserts, edits, dailySummary,
                   homeVars, foodKey, formVars, searchVars>>

\* 'Delete All' pressed: .delete().eq('user_id', userId) is issued
clearAllEntries_confirm ==
  /\ clearPc = "dialog"
  /\ clearPc' = "delete"
  /\ filter' = [filter EXCEPT !["delete"] = userId]
  /\ event' = "Delete All"
  /\ alert' = Null
  /\ reply' = Null
  /\ UNCHANGED <<screen, libVars, userId, items, loading, inserting,
                   refreshing, error, table, seq, authPc, pc, save, loadPc,
                   insertCount, inserts, edits, dailySummary, homeVars,
                   foodKey, formVars, searchVars>>

\* .delete().eq('user_id', uid): the rows it leaves in the table; a null
\* uid matches no row
DeleteByUser(rows, uid) ==
  LET others(r) == uid = Null \/ r.user_id # uid[1] IN SelectSeq(rows, others)

\* the delete returns { error }; on success fetchItems is entered
clearAllEntries_delete ==
  /\ clearPc = "delete"
  /\ \E ok \in BOOLEAN :
       IF ok
       THEN LET h == fetchItemsHead(error)
            IN /\ table' = DeleteByUser(table, filter["delete"])
               /\ alert' = Val("All entries cleared")
               /\ error' = h.error
               /\ refreshing' = h.refreshing
               /\ filter' = [filter EXCEPT !["delete"] = Null,
                                           !["clear"] = h.filter]
               /\ clearPc' = IF h.started THEN "refresh" ELSE "idle"
       ELSE /\ alert' = Val("delete failed")
            /\ clearPc' = "idle"
            /\ filter' = [filter EXCEPT !["delete"] = Null]
            /\ UNCHANGED <<table, error, refreshing>>
  /\ event' = "none"
  /\ reply' = Null
  /\ UNCHANGED <<screen, libVars, userId, items, loading, inserting, seq,
                   authPc, pc, save, loadPc, insertCount, inserts, edits,
                   dailySummary, homeVars, foodKey, formVars, searchVars>>

\* the select of clearAllEntries' fetchItems returns
clearAllEntries_refresh ==
  /\ clearPc = "refresh"
  /\ \E ok \in BOOLEAN : fetchItemsTail(ok, "clear")
  /\ clearPc' = "idle"
  /\ alert' = Null
  /\ event' = "none"
  /\ UNCHANGED <<screen, libVars, userId, loading, inserting, table, seq,
                   authPc, pc, save, loadPc, insertCount, inserts, edits,
                   homeVars, foodKey, formVars, searchVars>>

(* --------------------------------------------- FoodScreen: addFoodEntry *)
\* the object passed to .insert() by addFoodEntry
FoodPayload(trimmedName, caloriesNumber, ratingNumber) ==
  [food_name |-> trimmedName,
   calories |-> Val(caloriesNumber),
   protein |-> IF selectedNutrition = Null THEN Null
               ELSE OrNull(selectedNutrition[1].protein),
   carbs |-> IF selectedNutrition = Null THEN Null
             ELSE OrNull(selectedNutrition[1].carbs),
   fat |-> IF selectedNutrition = Null THEN Null
           ELSE OrNull(selectedNutrition[1].fat),
   fiber |-> IF selectedNutrition = Null THEN Null
             ELSE OrNull(selectedNutrition[1].fat),
   meal_type |-> mealType,
   rating |-> Val(ratingNumber),
   notes |-> IF trim(notes) = <<>> THEN Null ELSE Val(trim(notes)),
   user_id |-> userId[1]]

\* addFoodEntry without its check of the notes' length
addFoodEntry_noNotesCheck ==
  /\ screen = "food"
  /\ Uncovered
  /\ pc = "idle" /\ ~inserting
  /\ inserts < MaxInserts
  /\ LET trimmedName == trim(foodName)
         caloriesNumber == OrDefault(parseInt(calories), 0)
         ratingNumber == moodNumber(rating)
     IN IF userId = Null
        THEN /\ error' = Val("User not authenticated")
             /\ event' = "unauthenticated"
             /\ alert' = Null
             /\ UNCHANGED <<inserting, pc, save, insertCount, inserts>>
        ELSE IF trimmedName = <<>>
        THEN /\ alert' = Val("Please enter a food name")
             /\ event' = "invalid"
             /\ UNCHANGED <<error, inserting, pc, save, insertCount, inserts>>
        ELSE IF Len(trimmedName) > MaxFoodName
        THEN /\ alert' = Val("Food name too long (max 100 characters)")
             /\ event' = "invalid"
             /\ UNCHANGED <<error, inserting, pc, save, insertCount, inserts>>
        ELSE IF caloriesNumber < 0 \/ caloriesNumber > MaxCalories
        THEN /\ alert' = Val("Please enter a valid calorie amount (0-10000)")
             /\ event' = "invalid"
             /\ error' = Null
             /\ inserting' = FALSE
             /\ UNCHANGED <<pc, save, insertCount, inserts>>
        ELSE /\ inserting' = TRUE
             /\ error' = Null
             /\ event' = "none"
             /\ pc' = "insert"
             /\ save' = [NoSave EXCEPT !.payload =
                           Val(FoodPayload(trimmedName, caloriesNumber,
                                           ratingNumber))]
             /\ insertCount' = 1
             /\ inserts' = inserts + 1
             /\ alert' = Null
  /\ reply' = Null
  /\ UNCHANGED <<screen, libVars, userId, items, loading, refreshing, table,
                   seq, authPc, loadPc, filter, edits, dailySummary, homeVars,
                   foodKey, formVars, searchVars, clearPc>>

\* "Log Food Entry" pressed: addFoodEntry up to its await
addFoodEntry ==
  /\ screen = "food"
  /\ Uncovered
  /\ pc = "idle" /\ ~inserting
  /\ inserts < MaxInserts
  /\ LET trimmedName == trim(foodName)
         caloriesNumber == OrDefault(parseInt(calories), 0)
         ratingNumber == moodNumber(rating)
     IN IF userId = Null
        THEN /\ error' = Val("User not authenticated")
             /\ event' = "unauthenticated"
             /\ alert' = Null
             /\ UNCHANGED <<inserting, pc, save, insertCount, inserts>>
        ELSE IF trimmedName = <<>>
        THEN /\ alert' = Val("Please enter a food name")
             /\ event' = "invalid"
             /\ UNCHANGED <<error, inserting, pc, save, insertCount, inserts>>
        ELSE IF Len(trimmedName) > MaxFoodName
        THEN /\ alert' = Val("Food name too long (max 100 characters)")
             /\ event' = "invalid"
             /\ UNCHANGED <<error, inserting, pc, save, insertCount, inserts>>
        ELSE IF Len(notes) > MaxNotes
        THEN /\ alert' = Val("Notes too long (max 500 characters)")
             /\ event' = "invalid"
             /\ UNCHANGED <<error, inserting, pc, save, insertCount, inserts>>
        ELSE IF caloriesNumber < 0 \/ caloriesNumber > MaxCalories
        THEN /\ alert' = Val("Please enter a valid calorie amount (0-10000)")
             /\ event' = "invalid"
             /\ error' = Null
             /\ inserting' = FALSE
             /\ UNCHANGED <<pc, save, insertCount, inserts>>
        ELSE /\ inserting' = TRUE
             /\ error' = Null
             /\ event' = "none"
             /\ pc' = "insert"
             /\ save' = [NoSave EXCEPT !.payload =
                           Val(FoodPayload(trimmedName, caloriesNumber,
                                           ratingNumber))]
             /\ insertCount' = 1
             /\ inserts' = inserts + 1
             /\ alert' = Null
  /\ reply' = Null
  /\ UNCHANGED <<screen, libVars, userId, items, loading, refreshing, table,
                   seq, authPc, loadPc, filter, edits, dailySummary, homeVars,
                   foodKey, formVars, searchVars, clearPc>>

\* addFoodEntry returning after a failed insert, without fetchItems
addFoodEntry_insert_earlyReturn ==
  /\ screen = "food"
  /\ pc = "insert"
  /\ \E ok \in BOOLEAN :
       LET h == IF ok THEN fetchItemsHead(error)
                ELSE [started |-> FALSE, error |-> Val("insert failed"),
                      refreshing |-> refreshing, filter |-> Null]
       IN /\ table' = IF ok THEN Append(table, Stamp(save.payload[1], seq + 1))
                      ELSE table
          /\ seq' = IF ok THEN seq + 1 ELSE seq
          /\ save' = IF ~h.started THEN NoSave
                      ELSE [NoSave EXCEPT !.insErr =
                              IF ok THEN Null ELSE Val("insert failed")]
          /\ insertCount' = IF h.started THEN insertCount ELSE 0
          /\ alert' = IF ok THEN Val("Food Logged!") ELSE Null
          /\ foodName' = IF ok THEN <<>> ELSE foodName
          /\ calories' = IF ok THEN <<>> ELSE calories
          /\ notes' = IF ok THEN <<>> ELSE notes
          /\ selectedNutrition' = IF ok THEN Null ELSE selectedNutrition
          /\ error' = h.error
          /\ refreshing' = h.refreshing
          /\ filter' = [filter EXCEPT !["save"] = h.filter]
          /\ pc' = IF h.started THEN "refresh" ELSE "idle"
          /\ inserting' = h.started
          /\ event' = "none"
  /\ reply' = Null
  /\ UNCHANGED <<screen, libVars, userId, items, loading, authPc, loadPc,
                   inserts, edits, dailySummary, homeVars, foodKey, mealType,
                   rating, searchVars, clearPc>>

\* the insert returns { error: insErr }; addFoodEntry runs on into fetchItems
addFoodEntry_insert ==
  /\ screen = "food"
  /\ pc = "insert"
  /\ \E ok \in BOOLEAN :
       LET h == fetchItemsHead(IF ok THEN error ELSE Val("insert failed"))
       IN /\ table' = IF ok THEN Append(table, Stamp(save.payload[1], seq + 1))
                      ELSE table
          /\ seq' = IF ok THEN seq + 1 ELSE seq
          /\ save' = IF ~h.started THEN NoSave
                      ELSE [NoSave EXCEPT !.insErr =
                              IF ok THEN Null ELSE Val("insert failed")]
          /\ insertCount' = IF h.started THEN insertCount ELSE 0
          /\ alert' = IF ok THEN Val("Food Logged!") ELSE Null
          /\ foodName' = IF ok THEN <<>> ELSE foodName
          /\ calories' = IF ok THEN <<>> ELSE calories
          /\ notes' = IF ok THEN <<>> ELSE notes
          /\ selectedNutrition' = IF ok THEN Null ELSE selectedNutrition
          /\ error' = h.error
          /\ refreshing' = h.refreshing
          /\ filter' = [filter EXCEPT !["save"] = h.filter]
          /\ pc' = IF h.started THEN "refresh" ELSE "idle"
          /\ inserting' = h.started
          /\ event' = "none"
  /\ reply' = Null
  /\ UNCHANGED <<screen, libVars, userId, items, loading, authPc, loadPc,
                   inserts, edits, dailySummary, homeVars, foodKey, mealType,
                   rating, searchVars, clearPc>>

\* the select of the save's fetchItems returns; setInserting(false)
addFoodEntry_refresh ==
  /\ screen = "food"
  /\ pc = "refresh"
  /\ \E ok \in BOOLEAN :
       fetchItemsTail(ok, "save")
  /\ save' = NoSave
  /\ insertCount' = 0
  /\ inserting' = FALSE
  /\ pc' = "idle"
  /\ event' = "none"
  /\ alert' = Null
  /\ UNCHANGED <<screen, libVars, userId, loading, table, seq, authPc, loadPc,
                   inserts, edits, homeVars, foodKey, formVars, searchVars,
                   clearPc>>

Next ==
  \/ importSupabase
  \/ getCurrentUser
  \/ onRefresh
  \/ fetchItems_return
  \/ setText
  \/ setMood
  \/ setUseLocation
  \/ addItem
  \/ addItem_permission
  \/ addItem_position
  \/ addItem_weather
  \/ addItem_insert
  \/ addItem_refresh
  \/ handleFoodNameChange
  \/ handleNotesChange
  \/ setCalories
  \/ setMealType
  \/ setRating
  \/ searchNutrition
  \/ searchNutrition_response
  \/ selectNutritionItem
  \/ closeNutritionModal
  \/ clearAllEntries
  \/ clearAllEntries_cancel
  \/ clearAllEntries_confirm
  \/ clearAllEntries_delete
  \/ clearAllEntries_refresh
  \/ addFoodEntry
  \/ addFoodEntry_insert
  \/ addFoodEntry_refresh

Spec == Init /\ [][Next]_vars


\* every external call that is pending eventually settles: the promise of
\* getUser, of a permission request, a position lookup, an HTTP request, an
\* insert, a select or a delete resolves or rejects
CallsSettle ==
  /\ WF_vars(getCurrentUser)
  /\ WF_vars(fetchItems_return)
  /\ WF_vars(addItem_permission)
  /\ WF_vars(addItem_position)
  /\ WF_vars(addItem_weather)
  /\ WF_vars(addItem_insert)
  /\ WF_vars(addItem_refresh)
  /\ WF_vars(searchNutrition_response)
  /\ WF_vars(clearAllEntries_delete)
  /\ WF_vars(clearAllEntries_refresh)
  /\ WF_vars(addFoodEntry_insert)
  /\ WF_vars(addFoodEntry_refresh)

FairSpec == Spec /\ CallsSettle

(* ------------------------------------------------------------ properties *)
\* the steps of a save between its call and the return of its last await
SavePcs == {"permission", "position", "weather", "insert", "refresh"}

\* the save in flight leaves the insert: its insert call has returned
InsertReturns == pc = "insert" /\ pc' # "insert"

\* a save reaches its insert call in this step
InsertIssued == pc # "insert" /\ pc' = "insert"

\* text that is empty or holds white space only
Blank(s) == \A i \in 1..Len(s) : s[i] \in Whitespace

HasForbidden(s) == \E i \in 1..Len(s) : s[i] \in Forbidden

(* C1: when a save of the current mood screen or of the food screen whose
   insert returned an error finishes (inserting goes back to false) and the
   refresh that followed reported no error of its own, the error state
   holds the insert's error message. *)
C1_InsertErrorKept ==
  [][(screen \in {"home", "food"}
        /\ pc = "refresh" /\ pc' = "idle" /\ save.insErr # Null
        /\ error' # Val("select failed"))
       => (~inserting' /\ error' = save.insErr)]_vars

\* every check of the save's validation holds of the payload in flight
PayloadValid ==
  LET p == save.payload[1]
  IN IF screen = "food"
     THEN /\ userId # Null
          /\ p.food_name # <<>> /\ ~Blank(p.food_name)
          /\ Len(p.food_name) <= MaxFoodName
          /\ (p.notes # Null => Len(p.notes[1]) <= MaxNotes)
          /\ p.calories[1] >= 0 /\ p.calories[1] <= MaxCalories
     ELSE /\ (screen = "home" => userId # Null)
          /\ p.text # <<>> /\ ~Blank(p.text)

(* C2: a save validates, then inserts, then refreshes: an insert is in
   flight only with every validation passed; when the insert returns, with
   or without an error, the refresh is started; inserting is true from
   before the insert call until the refresh has returned, and only the
   return of the refresh sets it back to false. *)
C2_SaveOrder ==
  /\ [](pc = "insert" => (save.payload # Null /\ PayloadValid))
  /\ [](pc \in SavePcs => inserting)
  /\ [][InsertReturns => (pc' = "refresh" /\ refreshing' /\ inserting')]_vars
  /\ [][(pc = "refresh" /\ pc' # "refresh")
          => (pc' = "idle" /\ ~inserting')]_vars
  /\ [][(inserting /\ ~inserting') => pc = "refresh"]_vars

\* the refresh of a food save is in flight after its insert failed
C2_Witness ==
  screen = "food" /\ pc = "refresh" /\ save.insErr # Null /\ inserting

(* C3: on the current mood screen and the food screen every select and
   every delete in flight is filtered by user_id = userId, every row being
   inserted carries user_id = userId, and so every row of items has
   user_id = userId. *)
C3_OwnRowsOnly ==
  screen \in {"home", "food"} =>
    /\ \A i \in 1..Len(items) : userId # Null /\ items[i].user_id = userId[1]
    /\ \A c \in DOMAIN filter : filter[c] # Null => filter[c] = userId
    /\ (loadPc # "idle" => filter["load"] # Null)
    /\ (pc = "refresh" => filter["save"] # Null)
    /\ (clearPc = "refresh" => filter["clear"] # Null)
    /\ (clearPc = "delete" => filter["delete"] # Null)
    /\ (pc = "insert" => userId # Null
                         /\ save.payload[1].user_id = userId[1])

\* after a clear-all, a save and its refresh: items holds the saved row and
\* the table still holds the other user's row
C3_Witness ==
  /\ screen = "food" /\ pc = "idle" /\ clearPc = "idle"
  /\ Len(items) = 1 /\ items[1].id = 3
  /\ \E j \in 1..Len(table) : table[j].user_id # userId[1]

\* the form as addFoodEntry reads it fails one of the four checks
FormInvalid ==
  LET n == OrDefault(parseInt(calories), 0)
  IN \/ trim(foodName) = <<>>
     \/ Len(trim(foodName)) > MaxFoodName
     \/ Len(notes) > MaxNotes
     \/ n < 0
     \/ n > MaxCalories

ErrorAlerts ==
  { Val("Please enter a food name"),
    Val("Food name too long (max 100 characters)"),
    Val("Notes too long (max 500 characters)"),
    Val("Please enter a valid calorie amount (0-10000)") }

\* the step issues no insert, raises an error alert, keeps the form and
\* the items, and ends with inserting false
FormRejected ==
  /\ pc' = "idle" /\ insertCount' = insertCount /\ inserts' = inserts
  /\ table' = table
  /\ alert' \in ErrorAlerts
  /\ UNCHANGED <<formVars, items>>
  /\ ~inserting'

(* C4 as stated: addFoodEntry called with an empty trimmed food name, a
   name over 100 characters, notes over 500 characters or calories outside
   0..10000 issues no insert, shows an error alert, leaves the form and
   items unchanged and returns with inserting false. *)
C4_Original ==
  [][(addFoodEntry /\ FormInvalid) => FormRejected]_vars

(* C4 amended: the same, for a call made with userId non-null (with userId
   null the call returns at the authentication check, before any of the
   four checks, and raises no alert). *)
C4_RejectsInvalid ==
  [][(addFoodEntry /\ userId # Null /\ FormInvalid) => FormRejected]_vars

\* a signed-in user's entry was rejected for its notes' length
C4_Witness ==
  /\ screen = "food" /\ userId # Null /\ event = "invalid"
  /\ alert = Val("Notes too long (max 500 characters)")
  /\ Len(notes) > MaxNotes /\ ~inserting /\ pc = "idle"

(* C5: the food_name and the notes of every insert sent by the food screen
   hold none of the characters < > & " ' . *)
C5_InsertSanitized ==
  (screen = "food" /\ pc = "insert") =>
    /\ ~HasForbidden(save.payload[1].food_name)
    /\ (save.payload[1].notes # Null
          => ~HasForbidden(save.payload[1].notes[1]))

(* C6: addItem (current mood screen) and addFoodEntry called while userId
   is null set error to 'User not authenticated' and return: no insert, no
   refresh, inserting not set. *)
C6_Unauthenticated ==
  [][((addItem \/ addFoodEntry) /\ screen \in {"home", "food"}
        /\ userId = Null)
       => /\ error' = Val("User not authenticated")
          /\ ~inserting' /\ pc' = "idle"
          /\ UNCHANGED <<insertCount, inserts, table, items, refreshing,
                         loadPc, filter, save>>]_vars

\* addItem has returned at its authentication check
C6_Witness ==
  /\ screen = "home" /\ userId = Null /\ event = "unauthenticated"
  /\ error = Val("User not authenticated") /\ ~inserting /\ pc = "idle"

(* C7: no call is retried: one fetchWeather and one searchFoodAPI
   invocation send at most one HTTP request, whatever the response, and one
   save issues at most one insert. *)
C7_NoRetry ==
  /\ httpCount <= 1 /\ foodHttpCount <= 1 /\ insertCount <= 1
  /\ (pc = "weather" => httpCount = 1)
  /\ (searchPc = "http" => foodHttpCount = 1)
  /\ (pc = "insert" => insertCount = 1)

\* a food search has failed and returned, and no request is in flight
C7_Witness ==
  /\ screen = "food" /\ searchPc = "idle" /\ foodHttpCount = 0
  /\ alert = Val("Failed to search food database")

(* C8: the delete of clearAllEntries is issued only by 'Delete All' in the
   confirmation dialog; opening the dialog issues none; 'Cancel' issues
   none and leaves every state variable as it was; rows leave the table
   only by a delete that was confirmed. *)
C8_DeleteOnlyConfirmed ==
  /\ [][(clearPc # "delete" /\ clearPc' = "delete")
          => (clearPc = "dialog" /\ event' = "Delete All")]_vars
  /\ [][clearAllEntries
          => (clearPc' = "dialog" /\ UNCHANGED <<table, filter>>)]_vars
  /\ [][clearAllEntries_cancel
          => /\ clearPc' = "idle"
             /\ UNCHANGED <<userId, items, loading, inserting, refreshing,
                            error, dailySummary, formVars, searchVars,
                            table, filter, pc, save, loadPc>>]_vars
  /\ [][Len(table') < Len(table) => clearPc = "delete"]_vars

\* 'Cancel' was pressed with entries on the screen
C8_Witness ==
  /\ screen = "food" /\ event = "Cancel" /\ clearPc = "idle"
  /\ items # <<>> /\ table = InitTable("food")

\* the entered mood or rating clamped into 1..5, 3 when it does not parse
Clamped(s) ==
  LET n == parseInt(s)
  IN IF n = Null THEN DefaultRating ELSE Min(5, Max(1, n[1]))

(* C9: the mood (mood screen) or rating (food screen) of an insert is in
   1..5 and is the entered integer clamped into 1..5: below 1 it becomes 1,
   above 5 it becomes 5, and it is 3 when the input does not parse. *)
C9_MoodClamped ==
  [][InsertIssued
       => LET p == save'.payload[1]
          IN IF screen = "food"
             THEN p.rating = Val(Clamped(rating))
             ELSE p.mood \in 1..5 /\ p.mood = Clamped(mood)]_vars

(* C10 as stated: addItem of the mood screen called with text that is empty
   or white space only issues no insert and no refresh and leaves every
   state variable unchanged. *)
C10_Original ==
  [][(addItem /\ Blank(text))
       => UNCHANGED <<userId, items, loading, inserting, refreshing, error,
                      text, mood, useLocation, pc, save, loadPc, filter,
                      table, insertCount, inserts>>]_vars

(* C10 amended: the same, for a call made with userId non-null on the
   current screen, and for every call on the earlier version, which has no
   userId (with userId null the current addItem sets error to 'User not
   authenticated' before it looks at the text). *)
C10_BlankTextNoOp ==
  [][(addItem /\ Blank(text) /\ (screen = "home" => userId # Null))
       => UNCHANGED <<userId, items, loading, inserting, refreshing, error,
                      text, mood, useLocation, pc, save, loadPc, filter,
                      table, insertCount, inserts>>]_vars

\* a signed-in user pressed Save with white space in the text field
C10_Witness ==
  /\ screen = "home" /\ userId # Null /\ event = "blank"
  /\ text = <<" ">> /\ pc = "idle" /\ ~inserting

\* an environment variable that is undefined or empty
Missing(v) == v = Null \/ Len(v[1]) = 0

\* lib/supabase has been evaluated: it exported a client or threw
ModuleEvaluated == supabase # Null \/ moduleError # Null

(* C11: the backend client is created only when both
   EXPO_PUBLIC_SUPABASE_URL and EXPO_PUBLIC_SUPABASE_KEY are set: with the
   URL missing the module fails with 'Missing EXPO_PUBLIC_SUPABASE_URL'
   (also when the key is missing too), otherwise with the key missing it
   fails with 'Missing EXPO_PUBLIC_SUPABASE_KEY', and in both cases
   createClient is not called. *)
C11_ClientGuard ==
  /\ clientCalls <= 1
  /\ (clientCalls = 1) = (supabase # Null)
  /\ (supabase # Null => ~Missing(env.url) /\ ~Missing(env.key)
                          /\ supabase[1] = [url |-> env.url[1],
                                            key |-> env.key[1]]
                          /\ moduleError = Null)
  /\ ((screen = "supabase" /\ ModuleEvaluated) =>
        /\ (Missing(env.url) =>
              /\ moduleError = Val("Missing EXPO_PUBLIC_SUPABASE_URL")
              /\ clientCalls = 0)
        /\ ((~Missing(env.url) /\ Missing(env.key)) =>
              /\ moduleError = Val("Missing EXPO_PUBLIC_SUPABASE_KEY")
              /\ clientCalls = 0)
        /\ ((~Missing(env.url) /\ ~Missing(env.key)) => supabase # Null))

\* the module was evaluated with neither variable set
C11_Witness ==
  /\ screen = "supabase" /\ Missing(env.url) /\ Missing(env.key)
  /\ moduleError = Val("Missing EXPO_PUBLIC_SUPABASE_URL")
  /\ supabase = Null /\ clientCalls = 0

(* C12: every save that sets inserting to true eventually sets it back to
   false, provided every external call (permission request, position
   lookup, weather fetch, insert, select) eventually returns or throws. *)
C12_SaveCompletes == inserting ~> ~inserting

(* C13: a save is started only while inserting is false (the save button
   is disabled while inserting is true), and inserting is true whenever a
   save is under way, so at most one insert call of a screen is in flight:
   the save in flight has issued exactly one. *)
C13_OneSaveAtATime ==
  /\ [](pc # "idle" => inserting)
  /\ [][((addItem \/ addFoodEntry) /\ pc' # "idle")
          => (~inserting /\ pc = "idle" /\ insertCount = 0)]_vars
  /\ [][InsertIssued => (inserting' /\ insertCount' = 1)]_vars

\* an insert is in flight and only `inserting` keeps the Save button disabled
C13_Witness ==
  /\ screen = "home" /\ pc = "insert" /\ inserting /\ insertCount = 1
  /\ ~Blank(text)

\* the last step was the return of a fetchItems select
SelectReturned == reply # Null /\ reply[1].call = "select"

\* a step in which the select of some fetchItems returns
FetchReturns ==
  \/ fetchItems_return
  \/ addItem_refresh
  \/ addFoodEntry_refresh
  \/ clearAllEntries_refresh

(* C14 as stated, of the current mood screen and the food screen: when the
   select of fetchItems returns an error, error is the query's message and
   items is the empty list; when it succeeds, error is null and items is
   the returned list. *)
C14_Original ==
  (screen \in {"home", "food"} /\ SelectReturned) =>
    IF reply[1].error # Null
    THEN error = reply[1].error /\ items = <<>>
    ELSE error = Null /\ items = reply[1].data[1]

(* C14 amended: when the select returns an error, error is the query's
   message and items is the empty list; when it succeeds, items is the
   returned list and error is left as it is: null as set when this
   fetchItems began, unless an overlapping fetchItems has failed since, in
   which case that call's message stays. *)
C14_FetchOutcome ==
  /\ [][FetchReturns =>
          /\ SelectReturned'
          /\ IF reply'[1].error # Null
             THEN error' = reply'[1].error /\ items' = <<>>
             ELSE error' = error /\ items' = reply'[1].data[1]]_vars
  /\ [](SelectReturned => error \in {Null, Val("select failed")})

\* a failed select has emptied the list of a food screen that had shown
\* entries (their summary is still there)
C14_Witness ==
  /\ screen = "food" /\ SelectReturned /\ reply[1].error # Null
  /\ error = reply[1].error /\ items = <<>> /\ dailySummary # Null
  /\ dailySummary[1].totalCalories > 0

\* the last step was the return of fetchWeather's request
WeatherReturned == reply # Null /\ reply[1].call = "weather"

\* what fetchWeather is to return for a response
WeatherOf(resp) ==
  IF resp.thrown \/ ~resp.ok \/ resp.json = Null
  THEN [weather |-> Null, temperature |-> Null]
  ELSE IF resp.json[1].weather = <<>>
  THEN [weather |-> Null, temperature |-> Null]
  ELSE [weather |-> Val(Head(resp.json[1].weather).main),
        temperature |-> resp.json[1].temp]

(* C15: fetchWeather of the current mood screen never throws; without a
   configured key it issues no request and returns weather null and
   temperature null; it returns the same when the response is not OK, when
   the request or the JSON parsing throws and when the body has no weather
   element; otherwise it returns the first weather element's main value
   and the reported temperature, or null for a body without one. *)
C15_WeatherResult ==
  /\ []((screen = "home" /\ pc = "weather") => (weatherKey /\ httpCount = 1))
  /\ []((screen = "home" /\ WeatherReturned) =>
          /\ pc = "insert"
          /\ save.payload[1].weather = WeatherOf(reply[1].response).weather
          /\ save.payload[1].temperature
               = WeatherOf(reply[1].response).temperature)
  /\ [][(screen = "home" /\ pc = "position" /\ ~weatherKey
           /\ pc' # "position")
          => /\ pc' = "insert" /\ httpCount' = 0
             /\ save'.payload[1].weather = Null
             /\ save'.payload[1].temperature = Null]_vars
  /\ [][(screen = "home" /\ pc = "weather" /\ pc' # "weather")
          => (pc' = "insert" /\ WeatherReturned')]_vars

\* a non-OK response with a weather body came back and null was returned
C15_Witness ==
  /\ screen = "home" /\ WeatherReturned
  /\ ~reply[1].response.ok /\ reply[1].response.json # Null
  /\ pc = "insert" /\ save.payload[1].lat # Null
  /\ save.payload[1].weather = Null /\ save.payload[1].temperature = Null

\* the last step was the return of searchFoodAPI's request
FoodReturned == reply # Null /\ reply[1].call = "food"

SearchFailedAlert == Val("Failed to search food database")

(* C16: searchFoodAPI never throws; without a configured key it returns
   the empty list and issues no request; when the response is not OK or
   the request (or the parsing of its body) throws it returns the empty
   list and raises the error alert; for a body without a foods field it
   returns the empty list; otherwise it returns exactly one result per
   returned food, in the order of the response. *)
C16_SearchResult ==
  /\ [](searchPc = "http" => (foodKey /\ foodHttpCount = 1))
  /\ [](FoodReturned =>
          LET resp == reply[1].response
          IN IF resp.thrown \/ ~resp.ok \/ resp.json = Null
             THEN nutritionResults = <<>> /\ alert = SearchFailedAlert
             ELSE IF resp.json[1].foods = Null
             THEN nutritionResults = <<>> /\ alert = Null
             ELSE LET foods == resp.json[1].foods[1]
                  IN /\ alert = Null
                     /\ Len(nutritionResults) = Len(foods)
                     /\ \A i \in 1..Len(foods) :
                          nutritionResults[i] = toNutritionInfo(foods[i]))
  /\ [][(searchNutrition /\ ~foodKey /\ trim(toLowerCase(foodName)) # <<>>)
          => /\ foodHttpCount' = 0 /\ searchPc' = "idle"
             /\ nutritionResults' = <<>> /\ showNutritionModal']_vars
  /\ [][(searchPc = "http" /\ searchPc' # "http")
          => (searchPc' = "idle" /\ showNutritionModal' /\ FoodReturned')]_vars

\* a body with two different foods came back and both are listed in order
C16_Witness ==
  /\ FoodReturned /\ reply[1].response.ok /\ showNutritionModal
  /\ Len(nutritionResults) = 2
  /\ nutritionResults[1].name = <<"M", "&", "C">>
  /\ nutritionResults[1].calories = 351
  /\ nutritionResults[2].name = LongName

\* the name searchNutrition searches for
SearchQuery == trim(toLowerCase(foodName))

SearchUnchanged ==
  UNCHANGED <<nutritionResults, showNutritionModal, searchPc, foodHttpCount>>

(* C17 as stated: searchNutrition with a name that is empty after trimming
   issues no request and leaves the dialog closed, and with every other
   name it clears nutritionResults and issues a request. *)
C17_Original ==
  [][searchNutrition =>
       IF SearchQuery = <<>> THEN SearchUnchanged
       ELSE /\ nutritionResults' = <<>>
            /\ searchPc' = "http" /\ foodHttpCount' = 1]_vars

(* C17 amended: searchNutrition with a name that is empty after trimming
   issues no request and leaves results and dialog as they are; with
   another name it first clears nutritionResults and then, when the food
   API key is configured, issues one request for that name, also when the
   search before it was for the same name, and on its return stores what
   searchFoodAPI returned and opens the dialog, whatever the response
   was; without the key it issues no request and opens the dialog with
   the empty list at once. *)
C17_SearchFlow ==
  /\ [][searchNutrition =>
          IF SearchQuery = <<>> THEN SearchUnchanged
          ELSE /\ nutritionResults' = <<>>
               /\ IF foodKey
                  THEN /\ searchPc' = "http" /\ foodHttpCount' = 1
                       /\ query' = SearchQuery
                       /\ showNutritionModal' = showNutritionModal
                  ELSE /\ searchPc' = "idle" /\ foodHttpCount' = 0
                       /\ showNutritionModal']_vars
  /\ [][(searchPc = "http" /\ searchPc' # "http")
          => /\ FoodReturned' /\ showNutritionModal'
             /\ searchPc' = "idle"
             /\ nutritionResults'
                  = searchFoodAPI(reply'[1].response).results]_vars
  /\ [](event = "again" =>
          /\ nutritionResults = <<>>
          /\ foodKey => (searchPc = "http" /\ foodHttpCount = 1))

\* the name of the search before is searched once more and a request is out
C17_Witness ==
  /\ event = "again" /\ foodKey
  /\ searchPc = "http" /\ foodHttpCount = 1
  /\ query = SearchQuery /\ query # <<>>
  /\ nutritionResults = <<>> /\ ~showNutritionModal

\* s runs from the newest created_at to the oldest
NewestFirst(s) ==
  \A i \in 1..(Len(s) - 1) : s[i].created_at > s[i + 1].created_at

\* the rows of the table the screen's query asks for
Asked ==
  {table[i] : i \in {j \in 1..Len(table) :
                       screen = "home_v1" \/ Val(table[j].user_id) = userId}}

\* s holds the n most recent of rows, or all of them if there are fewer
MostRecent(s, rows, n) ==
  /\ Len(s) = Min(n, Cardinality(rows))
  /\ \A i \in 1..Len(s) : s[i] \in rows
  /\ \A r \in rows :
       \/ \E i \in 1..Len(s) : s[i] = r
       \/ \A i \in 1..Len(s) : r.created_at < s[i].created_at

(* C18: items never holds more than 50 entries, and after every fetchItems
   whose select succeeded items holds the 50 most recent rows of the
   table that the query asks for (all of them if there are fewer),
   ordered by created_at from the newest to the oldest. *)
C18_NewestFifty ==
  /\ Len(items) <= LIMIT
  /\ NewestFirst(items)
  /\ (SelectReturned /\ reply[1].error = Null) =>
       /\ items = reply[1].data[1]
       /\ MostRecent(items, Asked, LIMIT)

\* the mood list after a save: 51 rows match, the oldest one is left out
C18_Witness ==
  /\ screen = "home" /\ SelectReturned /\ reply[1].error = Null
  /\ Cardinality(Asked) = LIMIT + 1
  /\ Len(items) = LIMIT
  /\ items[1].id = StoredRows + 1 /\ items[LIMIT].id = 3
====
